---- MODULE Spec2Model ----
(***************************************************************************)
(* Model of file.go of the mock generator: the interface collector        *)
(* (getInterfaces), the parameter and result renderers (makeParam,         *)
(* makeReturn), the type renderer (getType), the zero value resolver       *)
(* (getZeroValue) and the parameter name synthesizer (makeIdentName).      *)
(*                                                                         *)
(* Go strings are modelled as sequences of one-character strings, so that  *)
(* strings.Index, strings.HasPrefix, strings.ToLower, slicing and          *)
(* strings.Join are computed the way the code computes them.                *)
(***************************************************************************)
EXTENDS Integers, Sequences, FiniteSets, TLC

\* ------------------------------------------------------------------------
\* Bounds of the model
\* ------------------------------------------------------------------------

\* longest parameter list drawn for makeParam
MaxParams == 3

\* longest result list drawn for makeReturn
MaxResults == 2

\* nesting depth of the type expressions drawn for getType / makeIdentName
TypeDepth == 2

\* number of type declarations in a walked file
MaxDecls == 3

\* ------------------------------------------------------------------------
\* Strings
\* ------------------------------------------------------------------------

UpperLetters == <<"A","B","C","D","E","F","G","H","I","J","K","L","M",
                  "N","O","P","Q","R","S","T","U","V","W","X","Y","Z">>

LowerLetters == <<"a","b","c","d","e","f","g","h","i","j","k","l","m",
                  "n","o","p","q","r","s","t","u","v","w","x","y","z">>

DigitChars == <<"0","1","2","3","4","5","6","7","8","9">>

\* strings.ToLower on one character
LowerChar(c) ==
    IF \E i \in 1..26 : UpperLetters[i] = c
    THEN LowerLetters[CHOOSE i \in 1..26 : UpperLetters[i] = c]
    ELSE c

\* strings.ToLower
ToLower(s) == [i \in 1..Len(s) |-> LowerChar(s[i])]

\* strings.HasPrefix
HasPrefix(s, p) == Len(s) >= Len(p) /\ SubSeq(s, 1, Len(p)) = p

\* strings.Index for a one-character needle, as a 0-based offset; -1 if absent
Index(s, c) ==
    IF \E i \in 1..Len(s) : s[i] = c
    THEN (CHOOSE i \in 1..Len(s) : s[i] = c /\ \A j \in 1..(i-1) : s[j] # c) - 1
    ELSE -1

\* the Go slice expression s[from:], from a 0-based offset
SliceFrom(s, from) == SubSeq(s, from + 1, Len(s))

RECURSIVE Join(_, _)
\* strings.Join
Join(list, sep) ==
    IF Len(list) = 0 THEN <<>>
    ELSE IF Len(list) = 1 THEN list[1]
    ELSE list[1] \o sep \o Join(Tail(list), sep)

RECURSIVE Itoa(_)
\* the %d verb of fmt.Sprintf on an unsigned counter
Itoa(n) ==
    IF n < 10 THEN <<DigitChars[n + 1]>>
    ELSE Itoa(n \div 10) \o <<DigitChars[(n % 10) + 1]>>

CommaSpace == <<",", " ">>

\* ------------------------------------------------------------------------
\* The lookup tables
\* ------------------------------------------------------------------------

reservedKeys ==
    << <<"b","o","o","l">>,
       <<"i","n","t">>,
       <<"i","n","t","8">>,
       <<"i","n","t","1","6">>,
       <<"i","n","t","3","2">>,
       <<"i","n","t","6","4">>,
       <<"u","i","n","t">>,
       <<"u","i","n","t","8">>,
       <<"u","i","n","t","1","6">>,
       <<"u","i","n","t","3","2">>,
       <<"u","i","n","t","6","4">>,
       <<"f","l","o","a","t","3","2">>,
       <<"f","l","o","a","t","6","4">>,
       <<"c","o","m","p","l","e","x","6","4">>,
       <<"c","o","m","p","l","e","x","1","2","8">>,
       <<"s","t","r","i","n","g">>,
       <<"s","t","r","u","c","t","{","}">>,
       <<"i","n","t","e","r","f","a","c","e","{","}">> >>

reservedVals ==
    << <<"b","v","a","l">>,
       <<"i","v","a","l">>,
       <<"i","8","v","a","l">>,
       <<"i","1","6","v","a","l">>,
       <<"i","3","2","v","a","l">>,
       <<"i","6","4","v","a","l">>,
       <<"u","i","v","a","l">>,
       <<"u","i","8","v","a","l">>,
       <<"u","i","1","6","v","a","l">>,
       <<"u","i","3","2","v","a","l">>,
       <<"u","i","6","4","v","a","l">>,
       <<"f","3","2","v","a","l">>,
       <<"f","6","4","v","a","l">>,
       <<"c","m","p","l","x","6","4","v","a","l">>,
       <<"c","m","p","l","x","1","2","8","v","a","l">>,
       <<"s","t","r","v","a","l">>,
       <<"s","t","r","u","c","t","v","a","l">>,
       <<"i","f","a","c","e","v","a","l">> >>

\* the table reserved: primitive type name -> identifier stem
reserved ==
    [k \in {reservedKeys[i] : i \in 1..Len(reservedKeys)} |->
        reservedVals[CHOOSE i \in 1..Len(reservedKeys) : reservedKeys[i] = k]]

\* the table reservedPrefix: composite marker -> suffix
reservedPrefix ==
    [k \in {<<"m","a","p">>, <<"[","]">>} |->
        IF k = <<"m","a","p">> THEN <<"m","a","p">> ELSE <<"s">>]

\* ------------------------------------------------------------------------
\* Syntax tree nodes (go/ast), as far as file.go reads them
\* ------------------------------------------------------------------------

\* *ast.Ident used as a type; under is what
\* info.TypeOf(ident).Underlying().String() answers for it
Ident(name, under) == [node |-> "Ident", Name |-> name, under |-> under]

SelectorExpr(x, sel) == [node |-> "SelectorExpr", X |-> x, Sel |-> sel]

StarExpr(x) == [node |-> "StarExpr", X |-> x]

\* [N]T and []T are both *ast.ArrayType; hasLen tells them apart
ArrayType(elt, hasLen) == [node |-> "ArrayType", Elt |-> elt, hasLen |-> hasLen]

MapType(key, value) == [node |-> "MapType", Key |-> key, Value |-> value]

\* ast.ChanDir: SEND = 1, RECV = 2, both = 3
ChanType(dir, value) == [node |-> "ChanType", Dir |-> dir, Value |-> value]

\* Results.nil is TRUE when the signature has no result clause at all
\* (the *ast.FieldList pointer is nil)
FuncType(params, results) ==
    [node |-> "FuncType", Params |-> params, Results |-> results]

StructType == [node |-> "StructType"]

\* Methods: the method fields of the interface body
InterfaceType(methods) == [node |-> "InterfaceType", Methods |-> methods]

\* an expression node in type position that getType has no case for, such
\* as the *ast.ParenExpr of a parenthesized type
OtherExpr == [node |-> "ParenExpr"]

\* *ast.Field: Names are the declared identifiers (none for an unnamed field)
Field(names, type) == [Names |-> names, Type |-> type]

\* a nil *ast.FieldList
NilFieldList == [nil |-> TRUE, List |-> <<>>]

FieldList(list) == [nil |-> FALSE, List |-> list]

\* ------------------------------------------------------------------------
\* Runtime panics
\*   v.Results.List on a nil FieldList: nil pointer dereference;
\*   params[0] on an empty slice in getReturnFields: index out of range.
\* ------------------------------------------------------------------------

RECURSIVE getTypePanics(_)
RECURSIVE getParamTypesPanics(_)
RECURSIVE getReturnFieldsPanics(_)

\* getType: does rendering expr end in a runtime panic
getTypePanics(expr) ==
    CASE expr.node = "SelectorExpr" -> getTypePanics(expr.X)
      [] expr.node = "StarExpr" -> getTypePanics(expr.X)
      [] expr.node = "ArrayType" -> getTypePanics(expr.Elt)
      [] expr.node = "MapType" -> getTypePanics(expr.Key) \/ getTypePanics(expr.Value)
      [] expr.node = "FuncType" ->
            \/ getParamTypesPanics(expr.Params)
            \/ expr.Results.nil
            \/ getReturnFieldsPanics(expr.Results.List)
      [] expr.node = "ChanType" -> getTypePanics(expr.Value)
      [] OTHER -> FALSE

getParamTypesPanics(list) ==
    \E i \in 1..Len(list) : getTypePanics(list[i].Type)

getReturnFieldsPanics(list) ==
    \/ \E i \in 1..Len(list) : getTypePanics(list[i].Type)
    \/ Len(list) = 0

\* ------------------------------------------------------------------------
\* TypeRenderer
\* ------------------------------------------------------------------------

RECURSIVE getType(_)
RECURSIVE getParamTypes(_)
RECURSIVE getReturnFields(_)

\* the prefix getType builds for a channel of direction dir:
\* types.ChanDir(v.Dir) is 1 for SendOnly and 2 for RecvOnly; ast's
\* bidirectional value 3 matches no case of the switch
chanPrefix(dir) ==
    IF dir = 1 THEN <<"c","h","a","n"," ">> \o <<"<","-">>
    ELSE IF dir = 2 THEN <<"<","-">> \o <<"c","h","a","n"," ">>
    ELSE <<"c","h","a","n"," ">>

getType(expr) ==
    CASE expr.node = "Ident" -> expr.Name
      [] expr.node = "SelectorExpr" -> getType(expr.X) \o <<".">> \o expr.Sel.Name
      [] expr.node = "StarExpr" -> <<"*">> \o getType(expr.X)
      [] expr.node = "ArrayType" -> <<"[","]">> \o getType(expr.Elt)
      [] expr.node = "MapType" ->
            <<"m","a","p","[">> \o getType(expr.Key) \o <<"]">> \o getType(expr.Value)
      [] expr.node = "FuncType" ->
            <<"f","u","n","c","(">> \o getParamTypes(expr.Params)
                \o <<")"," ">> \o getReturnFields(expr.Results.List)
      [] expr.node = "ChanType" -> chanPrefix(expr.Dir) \o getType(expr.Value)
      [] expr.node = "StructType" -> <<"s","t","r","u","c","t","{","}">>
      [] expr.node = "InterfaceType" -> <<"i","n","t","e","r","f","a","c","e","{","}">>
      [] OTHER -> <<"n","i","l">>

getParamTypes(list) ==
    Join([i \in 1..Len(list) |-> getType(list[i].Type)], CommaSpace)

\* one entry of getReturnFields: "name type" for a named field, else "type"
returnFieldText(p) ==
    IF Len(p.Names) > 0
    THEN p.Names[1] \o <<" ">> \o getType(p.Type)
    ELSE getType(p.Type)

\* getReturnFields with the parentheses put around a single result too
getReturnFieldsAlwaysParen(list) ==
    LET params == [i \in 1..Len(list) |-> returnFieldText(list[i])]
    IN  IF Len(params) > 0
        THEN <<"(">> \o Join(params, CommaSpace) \o <<")">>
        ELSE <<>>

\* evaluated only where getReturnFieldsPanics(list) is FALSE
getReturnFields(list) ==
    LET params == [i \in 1..Len(list) |-> returnFieldText(list[i])]
    IN  IF Len(params) > 1
        THEN <<"(">> \o Join(params, CommaSpace) \o <<")">>
        ELSE IF Len(params) = 1 THEN params[1] ELSE <<>>

\* ------------------------------------------------------------------------
\* ZeroValueResolver
\* ------------------------------------------------------------------------

getBuiltinZeroValue(ident) ==
    IF ident.under \in {"uint8", "uint16", "uint32", "uint64", "uint", "uintptr",
                        "int8", "int16", "int32", "int64", "int", "byte", "rune",
                        "float32", "float64", "complex64", "complex128"}
    THEN <<"0">>
    ELSE IF ident.under = "bool" THEN <<"f","a","l","s","e">>
    ELSE IF ident.under = "string" THEN <<"\"","\"">>
    ELSE <<"n","i","l">>

RECURSIVE getZeroValue(_)
getZeroValue(expr) ==
    CASE expr.node \in {"StarExpr", "ArrayType", "MapType", "FuncType",
                        "ChanType", "StructType", "InterfaceType"} -> <<"n","i","l">>
      [] expr.node = "SelectorExpr" -> getZeroValue(expr.Sel)
      [] expr.node = "Ident" -> getBuiltinZeroValue(expr)
      [] OTHER -> <<"n","i","l">>

getDefaultValues(list) ==
    Join([i \in 1..Len(list) |-> getZeroValue(list[i].Type)], CommaSpace)

\* the *Return record of makeReturn
makeReturn(list) ==
    [Type |-> getReturnFields(list), Value |-> getDefaultValues(list)]

\* ------------------------------------------------------------------------
\* NameSynthesizer
\* ------------------------------------------------------------------------

firstStep(lower) ==
    IF \E k \in DOMAIN reservedPrefix : HasPrefix(lower, k)
    THEN lower
    ELSE LET idx == Index(lower, ".")
         IN  IF idx # -1
             THEN LET typ == SliceFrom(lower, idx + 1)
                  IN  IF typ = <<"c","o","n","t","e","x","t">>
                      THEN <<"c","t","x">>
                      ELSE typ
             ELSE lower

RECURSIVE makeIdentName(_)
\* the two keys of reservedPrefix cannot both prefix one string, so the
\* iteration order of the Go map does not show in the result
makeIdentName(lower) ==
    LET ident == firstStep(lower)
        idx == Index(ident, "]")
    IN  IF ident \in DOMAIN reserved
        THEN reserved[ident]
        ELSE IF idx # -1 /\ \E k \in DOMAIN reservedPrefix : HasPrefix(ident, k)
        THEN LET k == CHOOSE k \in DOMAIN reservedPrefix : HasPrefix(ident, k)
             IN  makeIdentName(SliceFrom(ident, idx + 1)) \o reservedPrefix[k]
        ELSE ident

\* the name and the entry getParamField adds for an unnamed parameter whose
\* stem is key and whose type text is t, given the collision table m
unnamedName(m, key) ==
    IF key \in DOMAIN m THEN key \o Itoa(m[key]) ELSE key

\* bumpCounter with the counter of a new stem started at 1
bumpCounterFromOne(m, key) ==
    [k \in (DOMAIN m) \cup {key} |->
        IF k = key
        THEN (IF key \in DOMAIN m THEN m[key] + 1 ELSE 1)
        ELSE m[k]]

\* the collision table after an unnamed parameter of stem key:
\* m[key]++ for a known stem, m[key] = 0 for a new one
bumpCounter(m, key) ==
    [k \in (DOMAIN m) \cup {key} |->
        IF k = key
        THEN (IF key \in DOMAIN m THEN m[key] + 1 ELSE 0)
        ELSE m[k]]

\* one iteration of the loop of getParamField over the field p;
\* st holds the locals m, params and names
paramFieldStep(st, p) ==
    IF Len(p.Names) > 0
    THEN [m |-> st.m,
          params |-> Append(st.params, p.Names[1] \o <<" ">> \o getType(p.Type)),
          names |-> Append(st.names, p.Names[1])]
    ELSE LET t == getType(p.Type)
             lt == ToLower(t)
             key == makeIdentName(lt)
             nm == unnamedName(st.m, key)
         IN  [m |-> bumpCounter(st.m, key),
              params |-> Append(st.params, nm \o <<" ">> \o t),
              names |-> Append(st.names, nm)]

RECURSIVE paramFieldLoop(_, _)
\* the loop of getParamField: the locals after the fields of list, from st
paramFieldLoop(st, list) ==
    IF Len(list) = 0 THEN st
    ELSE paramFieldLoop(paramFieldStep(st, Head(list)), Tail(list))

\* the locals of getParamField after its loop; m starts empty on every call
paramFieldLocals(list) ==
    paramFieldLoop([m |-> <<>>, params |-> <<>>, names |-> <<>>], list)

\* the pair of texts getParamField returns
getParamField(list) ==
    LET st == paramFieldLocals(list)
    IN  [field |-> Join(st.params, CommaSpace), names |-> Join(st.names, CommaSpace)]

\* the *Param record of makeParam
makeParam(list) ==
    LET r == getParamField(list)
    IN  [TypeOnly |-> getParamTypes(list), NameOnly |-> r.names, Field |-> r.field]

\* makeParam panics exactly where the type of one of its fields does
makeParamPanics(list) == getParamTypesPanics(list)

\* makeReturn panics on an empty list and where a type of a field does
makeReturnPanics(results) == results.nil \/ getReturnFieldsPanics(results.List)

\* ------------------------------------------------------------------------
\* Go slices of *Interface: a slice is a window (arr, len, cap) on a backing
\* array of the heap; slices cut from one another share the array
\* ------------------------------------------------------------------------

\* the elements a slice shows
Elems(h, sl) == SubSeq(h[sl.arr], 1, sl.len)

\* make([]*Interface, 0): array 1 of the heap is the zero-sized array
EmptySlice == [arr |-> 1, len |-> 0, cap |-> 0]

\* result[:0]: same array, same capacity, no elements
Reslice0(sl) == [arr |-> sl.arr, len |-> 0, cap |-> sl.cap]

\* the capacity append grows a full slice of capacity c to (gc runtime:
\* doubling for small slices of pointers)
GrownCap(c) == IF c = 0 THEN 1 ELSE 2 * c

\* the padding of a backing array beyond its elements
NoMethod == [Name |-> <<>>, Param |-> <<>>, Return |-> <<>>]

\* append(sl, x) on heap h: writes in place while capacity lasts, otherwise
\* copies to a fresh array; yields the new heap and the new slice
SliceAppend(h, sl, x) ==
    IF sl.len < sl.cap
    THEN [heap |-> [h EXCEPT ![sl.arr][sl.len + 1] = x],
          slice |-> [sl EXCEPT !.len = sl.len + 1]]
    ELSE LET c == GrownCap(sl.cap)
             fresh == [i \in 1..c |->
                          IF i <= sl.len THEN h[sl.arr][i]
                          ELSE IF i = sl.len + 1 THEN x
                          ELSE NoMethod]
         IN  [heap |-> Append(h, fresh),
              slice |-> [arr |-> Len(h) + 1, len |-> sl.len + 1, cap |-> c]]

\* ------------------------------------------------------------------------
\* InterfaceCollector
\* ------------------------------------------------------------------------

VARIABLES
    file,     \* the type declarations of the parsed file (f.File)
    pos,      \* number of nodes of the walk already visited
    name,     \* getInterfaces' local name
    result,   \* getInterfaces' local result, a slice
    heap,     \* the backing arrays of the slices
    data,     \* f.data: interface name -> slice
    status,   \* "walking", "done", "panic", or "idle" outside a walk
    call      \* a single call of a renderer and its outcome, or idle

vars == <<file, pos, name, result, heap, data, status, call>>

\* the &Interface{...} literal built for the method field x
newInterface(x) ==
    [Name |-> x.Names[1],
     Param |-> makeParam(x.Type.Params),
     Return |-> makeReturn(x.Type.Results.List)]

\* building the literal for x panics: in makeParam, in v.Results.List of a
\* signature without result clause, or in makeReturn
newInterfacePanics(x) ==
    makeParamPanics(x.Type.Params) \/ makeReturnPanics(x.Type.Results)

RECURSIVE collectMethods(_, _)
\* the loop over v.Methods.List in the InterfaceType case, from the locals
\* st = (heap, result, panicked); fields whose type is no FuncType are skipped
collectMethods(st, list) ==
    IF Len(list) = 0 \/ st.panicked THEN st
    ELSE LET x == Head(list)
         IN  IF x.Type.node # "FuncType"
             THEN collectMethods(st, Tail(list))
             ELSE IF newInterfacePanics(x)
             THEN [st EXCEPT !.panicked = TRUE]
             ELSE LET a == SliceAppend(st.heap, st.result, newInterface(x))
                  IN  collectMethods([heap |-> a.heap, result |-> a.slice,
                                      panicked |-> FALSE], Tail(list))

RECURSIVE typeNodes(_)
RECURSIVE fieldNodes(_)
\* the nodes ast.Walk visits below and including the type expression expr,
\* in depth-first order, as far as the callback tells them apart
typeNodes(expr) ==
    CASE expr.node = "InterfaceType" ->
            <<[node |-> "InterfaceType", Methods |-> expr.Methods]>>
                \o fieldNodes(expr.Methods)
      [] expr.node = "FuncType" ->
            <<[node |-> "Other"]>> \o fieldNodes(expr.Params)
                \o fieldNodes(expr.Results.List)
      [] expr.node = "StructType" -> <<[node |-> "Other"]>>
      [] expr.node = "StarExpr" -> <<[node |-> "Other"]>> \o typeNodes(expr.X)
      [] expr.node = "ArrayType" -> <<[node |-> "Other"]>> \o typeNodes(expr.Elt)
      [] expr.node = "MapType" ->
            <<[node |-> "Other"]>> \o typeNodes(expr.Key) \o typeNodes(expr.Value)
      [] expr.node = "ChanType" -> <<[node |-> "Other"]>> \o typeNodes(expr.Value)
      [] OTHER -> <<[node |-> "Other"]>>

fieldNodes(list) ==
    IF Len(list) = 0 THEN <<>>
    ELSE typeNodes(Head(list).Type) \o fieldNodes(Tail(list))

\* a type declaration: its name and, for a struct, its fields
TypeDecl(nm, type, fields) == [Name |-> nm, Type |-> type, Fields |-> fields]

\* the nodes of one type declaration: the TypeSpec, then its type
declNodes(d) ==
    <<[node |-> "TypeSpec", Name |-> d.Name,
       isInterface |-> (d.Type.node = "InterfaceType")]>>
        \o typeNodes(d.Type) \o fieldNodes(d.Fields)

RECURSIVE fileNodes(_)
\* the walk of f.File: the nodes of its declarations in source order
fileNodes(f) ==
    IF Len(f) = 0 THEN <<>> ELSE declNodes(Head(f)) \o fileNodes(Tail(f))

\* f.data[name] = result
dataPut(d, k, v) == [x \in (DOMAIN d) \cup {k} |-> IF x = k THEN v ELSE d[x]]

\* no single renderer call is followed
NoCall == [fn |-> "none", arg |-> <<>>, state |-> "idle", out |-> <<>>]

\* the walk has not been started
NoWalk ==
    /\ file = <<>>
    /\ pos = 0
    /\ name = <<>>
    /\ result = EmptySlice
    /\ heap = << <<>> >>
    /\ data = <<>>
    /\ status = "idle"

\* the node the walk is about to hand to the callback
CurrentNode == fileNodes(file)[pos + 1]

Walking == status = "walking" /\ pos < Len(fileNodes(file))

\* case *ast.TypeSpec of the callback
VisitTypeSpec ==
    /\ Walking
    /\ CurrentNode.node = "TypeSpec"
    /\ name' = IF CurrentNode.isInterface THEN CurrentNode.Name ELSE name
    /\ result' = Reslice0(result)
    /\ pos' = pos + 1
    /\ UNCHANGED <<file, heap, data, status, call>>

\* case *ast.InterfaceType of the callback: the loop over the methods, then
\* f.data[name] = result; a panic in the loop ends the program
VisitInterfaceType ==
    /\ Walking
    /\ CurrentNode.node = "InterfaceType"
    /\ LET st == collectMethods([heap |-> heap, result |-> result,
                                 panicked |-> FALSE], CurrentNode.Methods)
       IN  /\ heap' = st.heap
           /\ result' = st.result
           /\ IF st.panicked
              THEN /\ status' = "panic"
                   /\ UNCHANGED <<data, pos>>
              ELSE /\ data' = dataPut(data, name, st.result)
                   /\ pos' = pos + 1
                   /\ UNCHANGED status
    /\ UNCHANGED <<file, name, call>>

\* any other node: no case of the switch applies
VisitOther ==
    /\ Walking
    /\ CurrentNode.node = "Other"
    /\ pos' = pos + 1
    /\ UNCHANGED <<file, name, result, heap, data, status, call>>

\* the walk is over and getInterfaces returns
WalkReturns ==
    /\ status = "walking"
    /\ pos = Len(fileNodes(file))
    /\ status' = "done"
    /\ UNCHANGED <<file, pos, name, result, heap, data, call>>

\* ------------------------------------------------------------------------
\* The inputs
\* ------------------------------------------------------------------------

tInt == Ident(<<"i","n","t">>, "int")

tString == Ident(<<"s","t","r","i","n","g">>, "string")

tBool == Ident(<<"b","o","o","l">>, "bool")

tError == Ident(<<"e","r","r","o","r">>, "interface{Error() string}")

\* type T struct{...} and type T0 struct{...} of the walked package
tT == Ident(<<"T">>, "struct{...}")

tT0 == Ident(<<"T","0">>, "struct{...}")

\* type Celsius float64
tCelsius == Ident(<<"C","e","l","s","i","u","s">>, "float64")

tContext == SelectorExpr(Ident(<<"c","o","n","t","e","x","t">>, "package"),
                         Ident(<<"C","o","n","t","e","x","t">>, "interface{...}"))

\* an unnamed field of type t
Unnamed(t) == Field(<<>>, t)

\* map[string]int
tMapStringInt == MapType(tString, tInt)

\* func(int, string) (int, error)
tFuncTwoResults ==
    FuncType(<<Unnamed(tInt), Unnamed(tString)>>,
             FieldList(<<Unnamed(tInt), Unnamed(tError)>>))

\* func(context.Context, int) error
tFuncContext ==
    FuncType(<<Unnamed(tContext), Unnamed(tInt)>>, FieldList(<<Unnamed(tError)>>))

\* func(), a function type without result clause
tFuncNoResult == FuncType(<<>>, NilFieldList)

\* the types without component
AtomTypes ==
    {tInt, tString, tT, tT0, tError, tContext, StructType, InterfaceType(<<>>),
     OtherExpr}

\* the key types drawn for maps: string and the array [2]int
KeyTypes == {tString, ArrayType(tInt, TRUE)}

RECURSIVE TypesAt(_)
\* the type expressions of nesting depth at most d
TypesAt(d) ==
    IF d = 0 THEN AtomTypes
    ELSE LET inner == TypesAt(d - 1)
         IN  AtomTypes
             \cup {StarExpr(t) : t \in inner}
             \cup {ArrayType(t, FALSE) : t \in inner}
             \cup {MapType(k, t) : k \in KeyTypes, t \in inner}
             \cup {ChanType(dir, t) : dir \in {1, 2, 3}, t \in inner}
             \cup {FuncType(<<Unnamed(t)>>, NilFieldList) : t \in inner}
             \cup {FuncType(<<>>, FieldList(<<Unnamed(t)>>)) : t \in inner}
             \cup {FuncType(<<Unnamed(t), Unnamed(tString)>>,
                            FieldList(<<Unnamed(tInt), Unnamed(tError)>>)) :
                       t \in inner}

\* the sequences over S of length lo to hi
SeqsOf(S, lo, hi) == UNION {[1..n -> S] : n \in lo..hi}

\* a field list the parser and the type checker accept (parse returns an
\* error otherwise and nothing is collected): its fields are all named or
\* all unnamed, and no name other than _ is declared twice
WellFormedFields(list) ==
    /\ \/ \A i \in 1..Len(list) : Len(list[i].Names) = 0
       \/ \A i \in 1..Len(list) : Len(list[i].Names) > 0
    /\ \A i, j \in 1..Len(list) :
          \A a \in 1..Len(list[i].Names), b \in 1..Len(list[j].Names) :
             (list[i].Names[a] = list[j].Names[b] /\ list[i].Names[a] # <<"_">>)
                => (i = j /\ a = b)

\* the types drawn for unnamed parameters
UnnamedParamTypes ==
    {tInt, tT, tT0, tContext, tMapStringInt, tFuncTwoResults, tFuncContext,
     tFuncNoResult}

\* the fields drawn for named parameters; x, y int declares two names
NamedParams ==
    {Field(ns, t) : ns \in {<<<<"x">>>>, <<<<"y">>>>, <<<<"x">>, <<"y">>>>, <<<<"_">>>>},
                    t \in {tInt, tMapStringInt, tFuncTwoResults}}

\* the parameter lists drawn for makeParam
ParamLists ==
    {l \in SeqsOf({Unnamed(t) : t \in UnnamedParamTypes} \cup NamedParams,
                  0, MaxParams) : WellFormedFields(l)}

\* the types drawn for unnamed results
UnnamedResultTypes ==
    {tInt, tString, tBool, tError, tT, tCelsius, tContext, StarExpr(tT),
     ChanType(3, tInt), tFuncTwoResults, tFuncNoResult}

\* the fields drawn for named results
NamedResults ==
    {Field(<<<<"n">>>>, tInt), Field(<<<<"e","r","r">>>>, tError), Field(<<<<"x">>, <<"y">>>>, tString)}

\* the result clauses drawn for makeReturn; none at all is one of them
ResultClauses ==
    {NilFieldList} \cup
    {FieldList(l) : l \in {r \in SeqsOf({Unnamed(t) : t \in UnnamedResultTypes}
                                            \cup NamedResults, 0, MaxResults) :
                              WellFormedFields(r)}}

\* Get(key string) (T, bool)
mGet ==
    Field(<<<<"G","e","t">>>>, FuncType(<<Field(<<<<"k","e","y">>>>, tString)>>,
                              FieldList(<<Unnamed(tT), Unnamed(tBool)>>)))

\* Do(context.Context, map[string]int) error
mDo ==
    Field(<<<<"D","o">>>>, FuncType(<<Unnamed(tContext), Unnamed(tMapStringInt)>>,
                             FieldList(<<Unnamed(tError)>>)))

\* Put(interface{}) error
mPut ==
    Field(<<<<"P","u","t">>>>, FuncType(<<Unnamed(InterfaceType(<<>>))>>,
                              FieldList(<<Unnamed(tError)>>)))

\* Close(), a method without result clause
mClose == Field(<<<<"C","l","o","s","e">>>>, FuncType(<<>>, NilFieldList))

\* an embedded interface: a field without name whose type is no FuncType
mEmbedded == Field(<<>>, Ident(<<"S","t","r","i","n","g","e","r">>, "interface{...}"))

\* the interface bodies drawn for the walked file
MethodLists ==
    {<<>>, <<mGet>>, <<mDo>>, <<mGet, mDo>>, <<mEmbedded, mPut, mGet>>, <<mClose>>}

\* the type declarations drawn for the walked file: interfaces A and B,
\* a struct S with or without a field h interface{ Do(...) error },
\* and type X int
Decls ==
    {TypeDecl(n, InterfaceType(ms), <<>>) : n \in {<<"A">>, <<"B">>}, ms \in MethodLists}
    \cup {TypeDecl(<<"S">>, StructType, <<>>),
          TypeDecl(<<"S">>, StructType, <<Field(<<<<"h">>>>, InterfaceType(<<mDo>>))>>),
          TypeDecl(<<"X">>, tInt, <<>>)}

\* the files drawn: 1 to MaxDecls declarations of distinct names
Files ==
    {f \in SeqsOf(Decls, 1, MaxDecls) :
        \A i, j \in 1..Len(f) : f[i].Name = f[j].Name => i = j}

\* ------------------------------------------------------------------------
\* Specifications
\* ------------------------------------------------------------------------

\* parse has returned the file; getInterfaces starts its walk
Init ==
    /\ file \in Files
    /\ pos = 0
    /\ name = <<>>
    /\ result = EmptySlice
    /\ heap = << <<>> >>
    /\ data = <<>>
    /\ status = "walking"
    /\ call = NoCall

Next == VisitTypeSpec \/ VisitInterfaceType \/ VisitOther \/ WalkReturns

Spec == Init /\ [][Next]_vars

\* makeParam is called on a parameter list
InitParam ==
    /\ NoWalk
    /\ \E l \in ParamLists :
          call = [fn |-> "makeParam", arg |-> l, state |-> "called", out |-> <<>>]

CallMakeParam ==
    /\ call.fn = "makeParam"
    /\ call.state = "called"
    /\ call' = IF makeParamPanics(call.arg)
               THEN [call EXCEPT !.state = "panic"]
               ELSE [call EXCEPT !.state = "returned", !.out = makeParam(call.arg)]
    /\ UNCHANGED <<file, pos, name, result, heap, data, status>>

NextParam == CallMakeParam

SpecParam == InitParam /\ [][NextParam]_vars

\* makeReturn is called on the result clause of a signature
InitReturn ==
    /\ NoWalk
    /\ \E r \in ResultClauses :
          call = [fn |-> "makeReturn", arg |-> r, state |-> "called", out |-> <<>>]

CallMakeReturn ==
    /\ call.fn = "makeReturn"
    /\ call.state = "called"
    /\ call' = IF makeReturnPanics(call.arg)
               THEN [call EXCEPT !.state = "panic"]
               ELSE [call EXCEPT !.state = "returned",
                                 !.out = makeReturn(call.arg.List)]
    /\ UNCHANGED <<file, pos, name, result, heap, data, status>>

NextReturn == CallMakeReturn

SpecReturn == InitReturn /\ [][NextReturn]_vars

\* getParamField reaches an unnamed parameter of some type
InitType ==
    /\ NoWalk
    /\ \E t \in TypesAt(TypeDepth) :
          call = [fn |-> "getType", arg |-> t, state |-> "called", out |-> <<>>]

\* t := f.getType(p.Type)
CallGetType ==
    /\ call.fn = "getType"
    /\ call.state = "called"
    /\ call' = IF getTypePanics(call.arg)
               THEN [call EXCEPT !.state = "panic"]
               ELSE [call EXCEPT !.state = "rendered",
                                 !.out = [t |-> getType(call.arg)]]
    /\ UNCHANGED <<file, pos, name, result, heap, data, status>>

\* lt := strings.ToLower(t); key := makeIdentName(lt)
CallMakeIdentName ==
    /\ call.fn = "getType"
    /\ call.state = "rendered"
    /\ call' = [call EXCEPT !.state = "named",
                            !.out = [t |-> call.out.t,
                                     key |-> makeIdentName(ToLower(call.out.t))]]
    /\ UNCHANGED <<file, pos, name, result, heap, data, status>>

NextType == CallGetType \/ CallMakeIdentName

SpecType == InitType /\ [][NextType]_vars

\* ------------------------------------------------------------------------
\* Reading the texts back
\* ------------------------------------------------------------------------

\* the number of brackets open after each offset of s, 0 before the text;
\* a closing bracket that closes nothing is plain text
Depths(s) ==
    LET d[i \in 0..Len(s)] ==
            IF i = 0 THEN 0
            ELSE LET before == d[i - 1]
                 IN  IF s[i] \in {"(", "[", "{"} THEN before + 1
                     ELSE IF s[i] \in {")", "]", "}"} /\ before > 0 THEN before - 1
                     ELSE before
    IN  d

\* the number of brackets open before offset i of s
DepthAt(s, i) == Depths(s)[i - 1]

\* the offsets of the separators ", " of s that lie outside every bracket
TopCommas(s) ==
    {i \in 1..(Len(s) - 1) : s[i] = "," /\ s[i + 1] = " " /\ DepthAt(s, i) = 0}

\* the entries of a comma-joined text, split on its top-level commas
SplitTop(s) ==
    IF Len(s) = 0 THEN <<>>
    ELSE LET cuts == TopCommas(s)
             \* the k-th separator, Len(s) + 1 past the last
             cut(k) == IF k > Cardinality(cuts) THEN Len(s) + 1
                       ELSE CHOOSE c \in cuts :
                                Cardinality({d \in cuts : d < c}) = k - 1
         IN  [k \in 1..(Cardinality(cuts) + 1) |->
                 SubSeq(s, IF k = 1 THEN 1 ELSE cut(k - 1) + 2, cut(k) - 1)]

IdentChars ==
    {UpperLetters[i] : i \in 1..26} \cup {LowerLetters[i] : i \in 1..26}
        \cup {DigitChars[i] : i \in 1..10} \cup {"_"}

\* s is spelled like an identifier
ValidIdent(s) ==
    /\ Len(s) > 0
    /\ \A i \in 1..Len(s) : s[i] \in IdentChars
    /\ s[1] \notin {DigitChars[i] : i \in 1..10}

\* the stem of an unnamed parameter of type t
StemOf(t) == makeIdentName(ToLower(getType(t)))

\* ------------------------------------------------------------------------
\* C1
\* ------------------------------------------------------------------------

\* the Method records of the body of the interface declaration d, in
\* declaration order
OwnMethods(d) ==
    LET funcs == SelectSeq(d.Type.Methods, LAMBDA x : x.Type.node = "FuncType")
    IN  [i \in 1..Len(funcs) |-> newInterface(funcs[i])]

\* the file declares interface types and nothing else
OnlyInterfaces == \A i \in 1..Len(file) : file[i].Type.node = "InterfaceType"

\* C1: once getInterfaces has walked the file, the output mapping holds for
\* every declared interface exactly the methods of its own body, in
\* declaration order, whatever was collected after it (stated for the files
\* that declare interface types only).
C1_EntriesAreOwnMethods ==
    (status = "done" /\ OnlyInterfaces) =>
        \A i \in 1..Len(file) :
            /\ file[i].Name \in DOMAIN data
            /\ Elems(heap, data[file[i].Name]) = OwnMethods(file[i])

\* ------------------------------------------------------------------------
\* C2, C3, C4
\* ------------------------------------------------------------------------

Returned(fn) == call.fn = fn /\ call.state = "returned"

\* C2: in the names makeParam lists, a synthesized name differs from every
\* other name of the list, synthesized or declared.
C2_SynthesizedNamesDistinct ==
    Returned("makeParam") =>
        LET list == call.arg
            names == paramFieldLocals(list).names
        IN  /\ call.out.NameOnly = Join(names, CommaSpace)
            /\ \A i, j \in 1..Len(list) :
                  (i # j /\ Len(list[i].Names) = 0) => names[i] # names[j]

\* how many unnamed parameters before position i have the stem of the i-th
EarlierOfStem(list, i) ==
    Cardinality({j \in 1..(i - 1) :
                    /\ Len(list[j].Names) = 0
                    /\ StemOf(list[j].Type) = StemOf(list[i].Type)})

\* C3: the k-th unnamed parameter of stem s (k counted from 0 among the
\* unnamed parameters of that stem only) is named s when k = 0 and s
\* followed by the decimal k-1 otherwise; namesOnly is these names (and the
\* declared ones) joined in declaration order.
C3_StemNumbering ==
    Returned("makeParam") =>
        LET list == call.arg
            expected == [i \in 1..Len(list) |->
                            IF Len(list[i].Names) > 0 THEN list[i].Names[1]
                            ELSE LET k == EarlierOfStem(list, i)
                                     s == StemOf(list[i].Type)
                                 IN  IF k = 0 THEN s ELSE s \o Itoa(k - 1)]
        IN  call.out.NameOnly = Join(expected, CommaSpace)

\* three unnamed parameters of one stem were named, with another stem
\* between the first and the last of them
C3_Witness ==
    /\ Returned("makeParam")
    /\ \E i, j, k \in 1..Len(call.arg) :
          /\ i < j /\ j < k
          /\ Len(call.arg[i].Names) = 0
          /\ StemOf(call.arg[i].Type) = StemOf(call.arg[k].Type)
          /\ StemOf(call.arg[i].Type) # StemOf(call.arg[j].Type)
    /\ makeParam(<<Unnamed(tInt), Unnamed(tInt), Unnamed(tInt)>>).NameOnly
          = <<"i","v","a","l",","," ","i","v","a","l","0",","," ","i","v","a","l","1">>

\* C4: the three texts of makeParam split on top-level commas into lists of
\* equal length, entry for entry "name type", the i-th entries being those
\* of the i-th field of the list.
C4_ParamTextsAligned ==
    Returned("makeParam") =>
        LET list == call.arg
            full == SplitTop(call.out.Field)
            names == SplitTop(call.out.NameOnly)
            types == SplitTop(call.out.TypeOnly)
        IN  /\ Len(full) = Len(names)
            /\ Len(names) = Len(types)
            /\ Len(types) = Len(list)
            /\ \A i \in 1..Len(list) :
                  /\ full[i] = names[i] \o <<" ">> \o types[i]
                  /\ types[i] = getType(list[i].Type)
                  /\ Len(list[i].Names) > 0 => names[i] = list[i].Names[1]

\* ------------------------------------------------------------------------
\* C5
\* ------------------------------------------------------------------------

\* C5: for n >= 1 result fields the signature text is the rendering of the
\* field when n = 1 and the parenthesized, comma-joined renderings when
\* n > 1; the default values are n entries, the i-th the zero value of the
\* i-th type; (int, error) gives "(int, error)" and "0, nil".
C5_ReturnTexts ==
    Returned("makeReturn") =>
        LET list == call.arg.List
            n == Len(list)
            rendered == [i \in 1..n |->
                            IF Len(list[i].Names) > 0
                            THEN list[i].Names[1] \o <<" ">> \o getType(list[i].Type)
                            ELSE getType(list[i].Type)]
            values == SplitTop(call.out.Value)
        IN  /\ n >= 1
            /\ n = 1 => call.out.Type = rendered[1]
            /\ n > 1 => call.out.Type = <<"(">> \o Join(rendered, CommaSpace) \o <<")">>
            /\ Len(values) = n
            /\ \A i \in 1..n : values[i] = getZeroValue(list[i].Type)
            /\ list = <<Unnamed(tInt), Unnamed(tError)>> =>
                  /\ call.out.Type = <<"(","i","n","t",","," ","e","r","r","o","r",")">>
                  /\ call.out.Value = <<"0",","," ","n","i","l">>

\* makeReturn returned for the results (int, error)
C5_Witness ==
    /\ Returned("makeReturn")
    /\ call.arg.List = <<Unnamed(tInt), Unnamed(tError)>>
    /\ call.out.Value = <<"0",","," ","n","i","l">>

\* ------------------------------------------------------------------------
\* C6
\* ------------------------------------------------------------------------

\* an interface body of the file has a signature whose result list, or that
\* of a function type inside it, is empty
HasMalformedSignature ==
    \E i \in 1..Len(fileNodes(file)) :
        /\ fileNodes(file)[i].node = "InterfaceType"
        /\ \E m \in 1..Len(fileNodes(file)[i].Methods) :
              LET x == fileNodes(file)[i].Methods[m]
              IN  x.Type.node = "FuncType" /\ newInterfacePanics(x)

\* C6: an empty result list ends the collection in an error outcome handed
\* to the caller: the program never crashes, and a walk over such a file
\* does not complete as if nothing had happened.
C6_MalformedSignatureIsAnError ==
    /\ status # "panic"
    /\ (status = "done" => ~HasMalformedSignature)

\* ------------------------------------------------------------------------
\* C7, C8, C9
\* ------------------------------------------------------------------------

\* the text the claim gives for a channel of direction dir
ChanMarker(dir) ==
    IF dir = 1 THEN <<"c","h","a","n","<","-"," ">>
    ELSE IF dir = 2 THEN <<"<","-","c","h","a","n"," ">>
    ELSE <<"c","h","a","n"," ">>

\* C7: a channel of T renders as "chan " + render(T), a send-only channel as
\* "chan<- " + render(T), a receive-only channel as "<-chan " + render(T).
C7_ChannelRendering ==
    (call.fn = "getType" /\ call.state = "rendered" /\ call.arg.node = "ChanType")
        => call.out.t = ChanMarker(call.arg.Dir) \o getType(call.arg.Value)

\* C8: the name synthesized for an unnamed parameter is spelled like an
\* identifier, whatever the shape of the type.
C8_SynthesizedNameIsIdentifier ==
    (call.fn = "getType" /\ call.state = "named") => ValidIdent(call.out.key)

\* C9: for an unnamed map with value type V the name is stem(V) + "map", for
\* an unnamed slice of E it is stem(E) + "s", whatever the key type.
C9_MapAndSliceStems ==
    (call.fn = "getType" /\ call.state = "named") =>
        /\ call.arg.node = "MapType" =>
              call.out.key = StemOf(call.arg.Value) \o <<"m","a","p">>
        /\ (call.arg.node = "ArrayType" /\ ~call.arg.hasLen) =>
              call.out.key = StemOf(call.arg.Elt) \o <<"s">>

\* ------------------------------------------------------------------------
\* C10
\* ------------------------------------------------------------------------

RECURSIVE DeclOf(_, _)
\* the index in f of the declaration the p-th node of the walk belongs to
DeclOf(f, p) ==
    IF p <= Len(declNodes(Head(f))) THEN 1
    ELSE 1 + DeclOf(Tail(f), p - Len(declNodes(Head(f))))

\* C10: visiting the nodes of a type declaration that is no interface adds
\* no key to the output mapping and leaves every stored entry as it was.
C10_OnlyInterfacesStore ==
    [][(Walking /\ file[DeclOf(file, pos + 1)].Type.node # "InterfaceType")
          => /\ DOMAIN data' = DOMAIN data
             /\ \A k \in DOMAIN data :
                   Elems(heap', data'[k]) = Elems(heap, data[k])]_vars

====
